---------------------------- MODULE Spec2Model ----------------------------
(***************************************************************************)
(* A model of the CSV -> MongoDB migration scripts                         *)
(*   src/migrations/migrateCategories.ts                                   *)
(*   src/migrations/migrateVendors.ts                                      *)
(*   src/migrations/migrateProducts.ts                                     *)
(*   src/utils/db.ts, src/utils/checkConfig.ts                             *)
(*                                                                         *)
(* A JavaScript string is a sequence of one-character strings, so that     *)
(* slice, split, the regular expressions and Number are computed as the    *)
(* code computes them.  The alphabet is the decimal digits, "/" and the    *)
(* letter "a" (any character that is neither a digit nor a separator).     *)
(*                                                                         *)
(* One action is one synchronous segment of a script: from the point a     *)
(* promise resolves to the next await.                                     *)
(***************************************************************************)
EXTENDS Integers, Sequences, FiniteSets, TLC

\* ------------------------------------------------------------------ bounds
MaxCatRows == 4
MaxVendRows == 2
MaxProdRows == 3
MaxPipeRows == 3
MaxBatchRows == 5
MaxRefRecords == 2
MaxLookupRows == 1

\* ------------------------------------------------------- program constants
MAX_RETRIES == 3
DEFAULT_BATCH_SIZE == 100
MAX_EXAMPLES == 5
MIN_VENDOR_YEAR == 2000

\* --------------------------------------------------------------- JS values
\* undefined and null where an object is expected, Invalid Date where a Date
\* is; NaN is an integer that no arithmetic of the model produces.
Undefined == [undefined |-> TRUE]
Null == [null |-> TRUE]
InvalidDate == [invalid |-> TRUE]
NaN == -1000000
\* Map.get on nodeMap, whose values are node references 1, 2, ...: no node
NoNode == 0

DigitChars == {"0", "1", "2", "3", "4", "5", "6", "7", "8", "9"}

DigitVal(c) ==
    CASE c = "0" -> 0 [] c = "1" -> 1 [] c = "2" -> 2 [] c = "3" -> 3
      [] c = "4" -> 4 [] c = "5" -> 5 [] c = "6" -> 6 [] c = "7" -> 7
      [] c = "8" -> 8 [] c = "9" -> 9

AllDigits(s) == \A i \in 1..Len(s) : s[i] \in DigitChars

\* s.slice(from, to) with 0-based from (inclusive) and to (exclusive)
Slice(s, from, to) == SubSeq(s, from + 1, IF to > Len(s) THEN Len(s) ELSE to)

RECURSIVE DecimalValue(_)
DecimalValue(s) ==
    IF s = <<>> THEN 0
    ELSE 10 * DecimalValue(SubSeq(s, 1, Len(s) - 1)) + DigitVal(s[Len(s)])

\* Number(s) on the model's alphabet: "" is 0, a digit string its decimal
\* value, anything else NaN.
Number(s) == IF AllDigits(s) THEN DecimalValue(s) ELSE NaN

\* a < b as JavaScript evaluates it: false when an operand is NaN
JsLess(a, b) == a # NaN /\ b # NaN /\ a < b

RECURSIVE SplitFrom(_, _, _)
SplitFrom(s, sep, cur) ==
    IF s = <<>> THEN <<cur>>
    ELSE IF s[1] = sep THEN <<cur>> \o SplitFrom(Tail(s), sep, <<>>)
    ELSE SplitFrom(Tail(s), sep, Append(cur, s[1]))

\* s.split(sep) for a one-character separator
Split(s, sep) == SplitFrom(s, sep, <<>>)

\* s.split('/').map(Number)[i] read as a number: a missing element is
\* undefined, which every comparison and the Date constructor convert to NaN
NumberAt(parts, i) == IF i + 1 \in DOMAIN parts THEN Number(parts[i + 1]) ELSE NaN

Range(s) == {s[i] : i \in DOMAIN s}

\* ------------------------------------------------------ calendar (Date)
IsLeap(y) == (y % 4 = 0 /\ y % 100 # 0) \/ y % 400 = 0

\* days in month m (1..12) of year y
DaysIn(y, m) ==
    IF m = 2 THEN (IF IsLeap(y) THEN 29 ELSE 28)
    ELSE IF m \in {4, 6, 9, 11} THEN 30 ELSE 31

RECURSIVE RollDay(_, _, _)
RollDay(y, m, d) ==
    IF d < 1 THEN
        (IF m = 1 THEN RollDay(y - 1, 12, d + 31)
                  ELSE RollDay(y, m - 1, d + DaysIn(y, m - 1)))
    ELSE IF d > DaysIn(y, m) THEN
        (IF m = 12 THEN RollDay(y + 1, 1, d - 31)
                   ELSE RollDay(y, m + 1, d - DaysIn(y, m)))
    ELSE [year |-> y, month |-> m, day |-> d]

\* new Date(y, monthIndex, d): a local calendar date; a year 0..99 means
\* 1900 + y, month and day overflow roll over, NaN or undefined gives
\* Invalid Date.  The result's month is 1..12.
NewDate(y, monthIndex, d) ==
    IF y = NaN \/ monthIndex = NaN \/ d = NaN
    THEN InvalidDate
    ELSE LET yy == IF y \in 0..99 THEN 1900 + y ELSE y
             yr == yy + (monthIndex \div 12)
             mo == (monthIndex % 12) + 1
         IN RollDay(yr, mo, d)

\* ------------------------------------------------------- JS Map (ordered)
\* A Map is the sequence of its entries in insertion order; set() on a key
\* already present replaces the value in place.
MapHas(m, k) == \E i \in DOMAIN m : m[i].key = k

\* m.get(k), with `absent` standing for undefined
MapGet(m, k, absent) ==
    IF MapHas(m, k) THEN m[CHOOSE i \in DOMAIN m : m[i].key = k].val ELSE absent

MapSet(m, k, v) ==
    IF MapHas(m, k)
    THEN [i \in DOMAIN m |-> IF m[i].key = k THEN [key |-> k, val |-> v] ELSE m[i]]
    ELSE Append(m, [key |-> k, val |-> v])

MapValues(m) == [i \in DOMAIN m |-> m[i].val]

\* --------------------------------------------------- migrateCategories.ts
\* /^\d{2,}$/.test(code) && code.length % 2 === 0
validateCategoryCode(code) ==
    /\ Len(code) >= 2
    /\ AllDigits(code)
    /\ Len(code) % 2 = 0

RECURSIVE InsertByLength(_, _)
InsertByLength(sorted, r) ==
    IF sorted = <<>> THEN <<r>>
    ELSE IF Len(r.CATEGORY_CODE) < Len(sorted[1].CATEGORY_CODE)
         THEN <<r>> \o sorted
         ELSE <<sorted[1]>> \o InsertByLength(Tail(sorted), r)

RECURSIVE SortFrom(_, _)
SortFrom(rows, acc) ==
    IF rows = <<>> THEN acc
    ELSE SortFrom(Tail(rows), InsertByLength(acc, rows[1]))

\* An input order kept as it is: what the builder sees when the sort is left out.
UnsortedRows(rows) == rows

\* categories.sort((a, b) => a.CATEGORY_CODE.length - b.CATEGORY_CODE.length):
\* a stable sort by code length
SortByCodeLength(rows) == SortFrom(rows, <<>>)

\* The heap of buildCategoryTree: the node objects in allocation order, the
\* children arrays (a node holds a reference to one) and nodeMap.
EmptyHeap == [nodes |-> <<>>, arrays |-> <<>>, nodeMap |-> <<>>]

\* CATEGORY_CODE.slice(0, -2)
parentCode(code) == Slice(code, 0, Len(code) - 2)

\* One iteration of the forEach callback of buildCategoryTree.
TreeStep(h, row) ==
    LET code == row.CATEGORY_CODE
        old == MapGet(h.nodeMap, code, NoNode)
        \* nodeMap.get(code)?.children || []: an array, even empty, is truthy
        fresh == old = NoNode
        arrays1 == IF fresh THEN Append(h.arrays, <<>>) ELSE h.arrays
        ref == IF fresh THEN Len(arrays1) ELSE h.nodes[old].children
        node == Len(h.nodes) + 1
        nodes1 == Append(h.nodes, [_id |-> code, name |-> row.CATEGORY_NAME,
                                   children |-> ref])
        map1 == MapSet(h.nodeMap, code, node)
        parent == IF Len(code) > 2 THEN MapGet(map1, parentCode(code), NoNode)
                  ELSE NoNode
        arrays2 == IF parent # NoNode
                   THEN [arrays1 EXCEPT ![nodes1[parent].children] = Append(@, node)]
                   ELSE arrays1
    IN [nodes |-> nodes1, arrays |-> arrays2, nodeMap |-> map1]

RECURSIVE TreeFold(_, _)
TreeFold(h, rows) ==
    IF rows = <<>> THEN h ELSE TreeFold(TreeStep(h, rows[1]), Tail(rows))

\* The heap when buildCategoryTree returns.
TreeHeap(categories) == TreeFold(EmptyHeap, SortByCodeLength(categories))

\* Every node of nodeMap returned as a root: the filter left out.
AllNodesAsRoots(h) == MapValues(h.nodeMap)

\* Array.from(nodeMap.values()).filter((n) => n._id.length === 2)
TreeRoots(h) ==
    SelectSeq(MapValues(h.nodeMap), LAMBDA n : Len(h.nodes[n]._id) = 2)

ChildrenOf(h, n) == h.arrays[h.nodes[n].children]

\* The value a node serialises to when the forest is written to the store.
RECURSIVE NodeDoc(_, _)
NodeDoc(h, n) ==
    [_id |-> h.nodes[n]._id,
     name |-> h.nodes[n].name,
     children |-> [i \in DOMAIN ChildrenOf(h, n) |-> NodeDoc(h, ChildrenOf(h, n)[i])]]

ForestDoc(h, roots) == [i \in DOMAIN roots |-> NodeDoc(h, roots[i])]

\* buildCategoryTree(categories), as the value handed to updateOne
buildCategoryTree(categories) ==
    LET h == TreeHeap(categories) IN ForestDoc(h, TreeRoots(h))

\* ------------------------------------------------------------- exceptions
Return(v) == [threw |-> FALSE, value |-> v]
Throw(text, arg) == [threw |-> TRUE, message |-> [text |-> text, arg |-> arg]]
\* a message with no interpolated value
Message(text) == [text |-> text, arg |-> <<>>]
NoError == Message("")

\* err.message.includes('Invalid date')
IncludesInvalidDate(message) ==
    message.text \in {"Invalid date: ", "Invalid date format: "}

\* ------------------------------------------------------ migrateVendors.ts
JsMinus(a, b) == IF a = NaN \/ b = NaN THEN NaN ELSE a - b

\* The range test of parseVendorDate with NaN failing every comparison.
VendorDateOutOfRange(m, d, y) ==
    \/ JsLess(m, 1)
    \/ JsLess(12, m)
    \/ JsLess(d, 1)
    \/ JsLess(31, d)
    \/ JsLess(y, MIN_VENDOR_YEAR)

\* const [m, d, y] = s.split('/').map(Number); the range test; new Date(y, m - 1, d)
parseVendorDate(s) ==
    LET parts == Split(s, "/")
        m == NumberAt(parts, 0)
        d == NumberAt(parts, 1)
        y == NumberAt(parts, 2)
    IN IF VendorDateOutOfRange(m, d, y)
       THEN Throw("Invalid date: ", s)
       ELSE Return(NewDate(y, JsMinus(m, 1), d))

\* updateOne: { filter: { _id }, update: { $set: fields }, upsert: true }
UpdateOne(id, fields) == [filter |-> id, set |-> fields]

PushExample(stats, ex) ==
    IF Len(stats.examples) < MAX_EXAMPLES
    THEN [stats EXCEPT !.examples = Append(@, ex)]
    ELSE stats

\* The callback of rows.map in the vendor script: the operation, or null with
\* the statistics updated.  st = [ops, skipStats].
VendorRow(st, v) ==
    LET created == parseVendorDate(v.CREATE_DATE)
        updated == parseVendorDate(v.LAST_MODIFIED_DATE)
        err == IF created.threw THEN created ELSE updated
    IN IF ~created.threw /\ ~updated.threw
       THEN [st EXCEPT !.ops = Append(@, UpdateOne(v.VENDOR_ID,
                [_id |-> v.VENDOR_ID, name |-> v.VENDOR_NAME,
                 createdAt |-> created.value, updatedAt |-> updated.value]))]
       ELSE LET s1 == [st.skipStats EXCEPT
                          !.total = @ + 1,
                          !.invalidDates =
                              IF IncludesInvalidDate(err.message) THEN @ + 1 ELSE @,
                          !.otherErrors =
                              IF IncludesInvalidDate(err.message) THEN @ ELSE @ + 1]
            IN [st EXCEPT !.skipStats =
                   PushExample(s1, [id |-> v.VENDOR_ID, message |-> err.message])]

RECURSIVE VendorRows(_, _)
VendorRows(st, rows) ==
    IF rows = <<>> THEN st ELSE VendorRows(VendorRow(st, rows[1]), Tail(rows))

VendorStats0 == [total |-> 0, invalidDates |-> 0, otherErrors |-> 0, examples |-> <<>>]

\* ----------------------------------------------------- migrateProducts.ts
\* id.replace(/^0+/, '')
RECURSIVE stripZeros(_)
stripZeros(id) ==
    IF id # <<>> /\ id[1] = "0" THEN stripZeros(Tail(id)) ELSE id

\* /^\d{8}$/ on s, then new Date(Number(yyyy), Number(mm) - 1, Number(dd))
parseProductDate(s) ==
    IF ~(Len(s) = 8 /\ AllDigits(s))
    THEN Throw("Invalid date format: ", s)
    ELSE Return(NewDate(Number(Slice(s, 0, 4)),
                        Number(Slice(s, 4, 6)) - 1,
                        Number(Slice(s, 6, 8))))

RECURSIVE ChunkFrom(_, _, _)
ChunkFrom(arr, size, i) ==
    IF i < Len(arr)
    THEN <<Slice(arr, i, i + size)>> \o ChunkFrom(arr, size, i + size)
    ELSE <<>>

\* A partition that keeps the full chunks only.
FullChunks(arr, size) ==
    IF size < 1 THEN <<>>
    ELSE SelectSeq(ChunkFrom(arr, size, 0), LAMBDA c : Len(c) = size)

\* The loop of chunkArray never ends: i += 0 leaves i below arr.length.
ChunkingDiverges(arr, size) == size = 0 /\ arr # <<>>

\* for (let i = 0; i < arr.length; i += size) out.push(arr.slice(i, i + size))
\* With size NaN the first slice(0, NaN) is empty and i becomes NaN, which
\* ends the loop.  Not defined where the loop diverges.
chunkArray(arr, size) ==
    IF size = NaN THEN (IF arr = <<>> THEN <<>> ELSE << <<>> >>)
    ELSE ChunkFrom(arr, size, 0)

\* An index keyed by the literal ids only.
LiteralIndex(m, docs) == m \o [i \in DOMAIN docs |-> [key |-> docs[i]._id, val |-> docs[i]]]

\* vendors.forEach((v) => { map.set(v._id, v); map.set(stripZeros(v._id), v) })
RECURSIVE BuildIndex(_, _)
BuildIndex(m, docs) ==
    IF docs = <<>> THEN m
    ELSE BuildIndex(MapSet(MapSet(m, docs[1]._id, docs[1]),
                           stripZeros(docs[1]._id), docs[1]),
                    Tail(docs))

\* map.get(id) || map.get(stripZeros(id)); a document is always truthy
Resolve(m, id) ==
    IF MapHas(m, id) THEN MapGet(m, id, Undefined)
    ELSE MapGet(m, stripZeros(id), Undefined)

ProductStats0 ==
    [skippedRows |-> 0, missingVendor |-> 0, missingCategory |-> 0,
     missingBoth |-> 0, otherErrors |-> 0, examples |-> <<>>]

\* The document of the $set of one product operation, or the error thrown
\* while it is built (createdAt is evaluated before updatedAt).
ProductDocOf(p, vendor, category, created, updated) ==
    IF created.threw THEN created
    ELSE IF updated.threw THEN updated
    ELSE Return([_id |-> p.SKU,
                 createdAt |-> created.value,
                 updatedAt |-> updated.value,
                 vendor |-> IF vendor = Undefined THEN Null
                            ELSE [_id |-> vendor._id, name |-> vendor.name],
                 category |-> [_id |-> category._id, name |-> category.name]])

ProductDoc(p, vendor, category) ==
    ProductDocOf(p, vendor, category, parseProductDate(p.CREATED_DATE),
                 parseProductDate(p.LAST_MODIFIED_DATE))

\* ops.push(...) with the document built, or the catch of the loop body
PushOp(st, p, built) ==
    IF built.threw
    THEN [st EXCEPT !.skipStats = PushExample(
             [@ EXCEPT !.skippedRows = @ + 1, !.otherErrors = @ + 1],
             [id |-> p.SKU, message |-> built.message])]
    ELSE [st EXCEPT !.ops = Append(@, UpdateOne(p.SKU, built.value))]

\* if (!category) { ...; continue }
DropForCategory(st, p, vendor) ==
    [st EXCEPT !.skipStats = PushExample(
        [@ EXCEPT !.skippedRows = @ + 1,
                  !.missingCategory = @ + 1,
                  !.missingVendor = IF vendor = Undefined THEN @ + 1 ELSE @],
        [id |-> p.SKU,
         message |-> IF vendor = Undefined
                     THEN Message("Missing vendor Missing category")
                     ELSE Message("Missing category")])]

\* if (!vendor) { ... }
NoteMissingVendor(st, p, vendor) ==
    IF vendor = Undefined
    THEN [st EXCEPT
            !.skipStats = PushExample([@ EXCEPT !.missingVendor = @ + 1],
                                      [id |-> p.SKU, message |-> Message("Missing vendor")]),
            !.missingVendorRows = Append(@,
                [p EXCEPT !.VENDOR = IF p.VENDOR = <<>> THEN <<"(empty)">> ELSE @])]
    ELSE st

\* The strict variant of the loop body: a row is dropped when its vendor or
\* its category is missing.
HandleRowStrict(st, p, vendor, category) ==
    IF vendor = Undefined \/ category = Undefined
    THEN [st EXCEPT !.skipStats = PushExample(
             [@ EXCEPT !.skippedRows = @ + 1,
                       !.missingBoth = IF vendor = Undefined /\ category = Undefined
                                       THEN @ + 1 ELSE @,
                       !.missingVendor = IF vendor = Undefined /\ category # Undefined
                                         THEN @ + 1 ELSE @,
                       !.missingCategory = IF vendor # Undefined THEN @ + 1 ELSE @],
             [id |-> p.SKU, message |-> Message("Missing vendor or category")])]
    ELSE PushOp(st, p, ProductDoc(p, vendor, category))

\* A loop body that persists a row whose category is missing, with an empty
\* category, instead of dropping it.
HandleRowAnyCategory(st, p, vendor, category) ==
    PushOp(NoteMissingVendor(st, p, vendor), p,
           ProductDoc(p, vendor,
                      IF category = Undefined THEN [_id |-> <<>>, name |-> ""]
                      ELSE category))

\* The body of `for (const p of batch)` once vendor and category are looked
\* up: st = [ops, skipStats, missingVendorRows].
HandleRow(st, p, vendor, category) ==
    IF category = Undefined
    THEN DropForCategory(st, p, vendor)
    ELSE PushOp(NoteMissingVendor(st, p, vendor), p, ProductDoc(p, vendor, category))

\* The body of `for (const p of batch)`.
ProcessRow(st, p, vendorMap, categoryMap) ==
    HandleRow(st, p, Resolve(vendorMap, p.VENDOR),
              Resolve(categoryMap, p.CATEGORY_CODE))

\* ---------------------------------------------------------------- store
\* A collection is the sequence of its documents in natural order: an update
\* leaves a document where it is, an insert appends.
EmptyDb == [categories |-> <<>>, categoryTree |-> <<>>, vendors |-> <<>>,
            products |-> <<>>]

HasDoc(coll, id) == \E i \in DOMAIN coll : coll[i]._id = id

\* An upsert that always inserts, as with a generated surrogate key.
InsertAlways(coll, op) == Append(coll, op.set @@ [_id |-> op.filter])

\* updateOne({ _id }, { $set }, { upsert: true }) applied by the store
ApplyUpsert(coll, op) ==
    IF HasDoc(coll, op.filter)
    THEN [i \in DOMAIN coll |->
            IF coll[i]._id = op.filter THEN op.set @@ coll[i] ELSE coll[i]]
    ELSE Append(coll, op.set @@ [_id |-> op.filter])

\* bulkWrite(ops, { ordered }): the operations are applied in their order; one
\* the store rejects stops an ordered write and is passed over by an unordered
\* one; either way the promise is then rejected (failed).
RECURSIVE BulkWrite(_, _, _, _)
BulkWrite(coll, ops, ordered, rejects) ==
    IF ops = <<>> THEN [coll |-> coll, failed |-> FALSE]
    ELSE IF ops[1].filter \in rejects
         THEN [coll |-> IF ordered THEN coll
                        ELSE BulkWrite(coll, Tail(ops), ordered, rejects).coll,
               failed |-> TRUE]
         ELSE BulkWrite(ApplyUpsert(coll, ops[1]), Tail(ops), ordered, rejects)

\* ------------------------------------------------------ checkConfig.ts
RECURSIVE LeadingDigits(_)
LeadingDigits(s) ==
    IF s # <<>> /\ s[1] \in DigitChars THEN <<s[1]>> \o LeadingDigits(Tail(s))
    ELSE <<>>

\* parseInt(s): the value of the leading digits, NaN when there are none
ParseInt(s) == IF LeadingDigits(s) = <<>> THEN NaN ELSE DecimalValue(LeadingDigits(s))

Unset == [set |-> FALSE, value |-> <<>>]
EnvValue(v) == [set |-> TRUE, value |-> v]

\* parseInt(process.env.BATCH_SIZE || '100'); isNaN(batchSize) || batchSize <= 0
BatchSizeAccepted(env) ==
    LET batchSize == IF ~env.set \/ env.value = <<>> THEN DEFAULT_BATCH_SIZE
                     ELSE ParseInt(env.value)
    IN ~(batchSize = NaN \/ batchSize <= 0)

\* Number(process.env.BATCH_SIZE ?? 100)
BatchSizeOf(env) == IF env.set THEN Number(env.value) ELSE DEFAULT_BATCH_SIZE

\* ------------------------------------------------------------------ state
VARIABLES
    script,             \* the migration script the process runs
    pc,                 \* the await the script is suspended at, or "done"/"exited"
    attempt,            \* connectDB: the attempt in progress (0 outside connectDB)
    files,              \* the rows loadCSV yields for each of the three files
    batchEnv,           \* process.env.BATCH_SIZE
    mongoUri,           \* process.env.MONGO_URI is set and not empty
    db,                 \* the four collections
    storeRejects,       \* the _ids whose write the store rejects
    skipStats,          \* the script's skipStats
    pending,            \* the operations of the write being awaited
    submitted,          \* every write submitted so far: [coll, ops]
    heap,               \* the heap of buildCategoryTree at its return
    vendorMap,
    categoryMap,
    batches,            \* chunkArray(products, batchSize)
    batchNo,            \* the batch whose bulkWrite is awaited (1-based)
    missingVendorRows,
    rowLog,             \* per product row handled: the loop state before and after
    outFile,            \* data/missing_vendors.csv
    err,                \* the message the catch block logged
    exitCode,           \* -1 while the process runs
    disconnected,       \* disconnectDB was invoked
    stage,              \* pipeline: the number of scripts started before this one
    snapshot            \* pipeline: the store when the first pass ended

vars == <<script, pc, attempt, files, batchEnv, mongoUri, db, storeRejects, skipStats,
          pending, submitted, heap, vendorMap, categoryMap, batches, batchNo,
          missingVendorRows, rowLog, outFile, err, exitCode, disconnected,
          stage, snapshot>>

inputs == <<files, batchEnv, mongoUri, storeRejects>>
treeVars == <<heap>>
loopVars == <<vendorMap, categoryMap, batches, batchNo, missingVendorRows,
              rowLog, outFile>>
pipeVars == <<stage, snapshot>>

NoFile == [written |-> FALSE, lines |-> <<>>]
NoStats == [examples |-> <<>>]
CategoryStats0 == [total |-> 0, examples |-> <<>>]

\* The locals of a script before it starts.
FreshLocals ==
    /\ pc = "start"
    /\ attempt = 0
    /\ skipStats = NoStats
    /\ pending = <<>>
    /\ submitted = <<>>
    /\ heap = EmptyHeap
    /\ vendorMap = <<>>
    /\ categoryMap = <<>>
    /\ batches = <<>>
    /\ batchNo = 0
    /\ missingVendorRows = <<>>
    /\ rowLog = <<>>
    /\ outFile = NoFile
    /\ err = NoError
    /\ exitCode = -1
    /\ disconnected = FALSE

\* catch (err) { console.error(...); process.exit(1) }: the process ends in
\* the catch block, before the finally block is entered.
Fatal(message) ==
    /\ pc' = "exited"
    /\ err' = message
    /\ exitCode' = 1

\* Entering the finally block: await disconnectDB()
EnterFinally == pc' = "disconnect"

\* validateConfig(): the error it throws, NoError when it returns
ConfigError(uri, env) ==
    IF ~uri THEN Message("Missing required environment variable: MONGO_URI")
    ELSE IF ~BatchSizeAccepted(env)
    THEN Message("BATCH_SIZE must be a positive integer")
    ELSE NoError

\* A connectDB that allows itself one attempt more.
OneAttemptMore(a) == a = MAX_RETRIES + 1

\* if (attempt === MAX_RETRIES) throw error
LastAttempt(a) == a = MAX_RETRIES

\* ------------------------------------------------------------ utils/db.ts
\* validateConfig() at the top of each script, then the call of connectDB
ValidateConfig ==
    /\ pc = "start"
    /\ IF ConfigError(mongoUri, batchEnv) # NoError
       THEN /\ Fatal(ConfigError(mongoUri, batchEnv))
            /\ UNCHANGED attempt
       ELSE IF ~mongoUri
       THEN /\ Fatal(Message("MONGO_URI not defined in .env"))
            /\ UNCHANGED attempt
       ELSE /\ pc' = "connect"
            /\ attempt' = 1
            /\ UNCHANGED <<err, exitCode>>
    /\ UNCHANGED <<script, inputs, db, skipStats, pending, submitted, treeVars,
                   loopVars, disconnected, pipeVars>>

\* mongoose.connect resolves: connectDB returns the connection.  The script
\* runs on to its first await.
ConnectOk ==
    /\ pc = "connect"
    /\ attempt' = 0
    /\ pc' = IF script = "products" THEN "countDocuments" ELSE "loadCSV"
    /\ skipStats' = CASE script = "categories" -> CategoryStats0
                      [] script = "vendors" -> VendorStats0
                      [] script = "products" -> skipStats
    /\ UNCHANGED <<script, inputs, db, pending, submitted, treeVars, loopVars,
                   err, exitCode, disconnected, pipeVars>>

\* mongoose.connect rejects: the last attempt rethrows, an earlier one waits
\* RETRY_DELAY_MS and goes round the loop.
ConnectFail ==
    /\ pc = "connect"
    /\ IF LastAttempt(attempt)
       THEN Fatal(Message("connect failed"))
       ELSE /\ pc' = "retryDelay"
            /\ UNCHANGED <<err, exitCode>>
    /\ UNCHANGED <<script, attempt, inputs, db, skipStats, pending, submitted,
                   treeVars, loopVars, disconnected, pipeVars>>

\* setTimeout(resolve, RETRY_DELAY_MS) fires: attempt++ and the next
\* mongoose.connect is awaited.
RetryDelayElapsed ==
    /\ pc = "retryDelay"
    /\ pc' = "connect"
    /\ attempt' = attempt + 1
    /\ UNCHANGED <<script, inputs, db, skipStats, pending, submitted, treeVars,
                   loopVars, err, exitCode, disconnected, pipeVars>>

\* disconnectDB() in the finally block resolves; the process then ends.
Disconnect ==
    /\ pc = "disconnect"
    /\ disconnected' = TRUE
    /\ pc' = "done"
    /\ exitCode' = 0
    /\ UNCHANGED <<script, attempt, inputs, db, skipStats, pending, submitted,
                   treeVars, loopVars, err, pipeVars>>

\* A script that gives up as soon as one row of its file was skipped.
AnyRowSkipped(ops, rows) == Len(ops) < Len(rows)

\* if (valid.length === 0) throw ... / if (!ops.length) throw ...
NothingToWrite(ops, rows) == ops = <<>>

\* ---------------------------------------------- migrateCategories.ts driver
\* rows.filter(...) with its statistics
RECURSIVE CategoryFilter(_, _)
CategoryFilter(st, rows) ==
    IF rows = <<>> THEN st
    ELSE LET r == rows[1]
         IN CategoryFilter(
              IF validateCategoryCode(r.CATEGORY_CODE)
              THEN [st EXCEPT !.valid = Append(@, r)]
              ELSE [st EXCEPT !.skipStats = PushExample(
                       [@ EXCEPT !.total = @ + 1],
                       [id |-> r.CATEGORY_CODE, message |-> Message("invalid format")])],
              Tail(rows))

ValidCategories(rows) ==
    CategoryFilter([valid |-> <<>>, skipStats |-> CategoryStats0], rows).valid

\* valid.map((r) => ({ updateOne: ... }))
CategoryWrites(valid) ==
    [i \in DOMAIN valid |->
        UpdateOne(valid[i].CATEGORY_CODE, [name |-> valid[i].CATEGORY_NAME])]

\* loadCSV resolves; rows are filtered; the bulk write is submitted.
CatLoaded ==
    /\ script = "categories"
    /\ pc = "loadCSV"
    /\ LET st == CategoryFilter([valid |-> <<>>, skipStats |-> skipStats],
                                files.categories)
       IN /\ skipStats' = st.skipStats
          /\ IF NothingToWrite(st.valid, files.categories)
             THEN /\ Fatal(Message("No valid categories found"))
                  /\ UNCHANGED <<pending, submitted>>
             ELSE /\ pending' = CategoryWrites(st.valid)
                  /\ submitted' = Append(submitted,
                        [coll |-> "categories", ops |-> CategoryWrites(st.valid)])
                  /\ pc' = "bulkWrite"
                  /\ UNCHANGED <<err, exitCode>>
    /\ UNCHANGED <<script, attempt, inputs, db, treeVars, loopVars, disconnected,
                   pipeVars>>

\* col.bulkWrite(writes, { ordered: false }) settles; the tree is built and
\* its updateOne submitted.
CatBulkDone ==
    /\ script = "categories"
    /\ pc = "bulkWrite"
    /\ LET res == BulkWrite(db.categories, pending, FALSE, storeRejects)
           valid == ValidCategories(files.categories)
           treeRoots == buildCategoryTree(valid)
           write == <<UpdateOne(<<"categoryTree">>, [children |-> treeRoots])>>
       IN /\ db' = [db EXCEPT !.categories = res.coll]
          /\ IF res.failed
             THEN /\ Fatal(Message("bulk write failed"))
                  /\ UNCHANGED <<pending, submitted, heap>>
             ELSE /\ heap' = TreeHeap(valid)
                  /\ pending' = write
                  /\ submitted' = Append(submitted,
                        [coll |-> "categoryTree", ops |-> write])
                  /\ pc' = "updateOne"
                  /\ UNCHANGED <<err, exitCode>>
    /\ UNCHANGED <<script, attempt, inputs, skipStats, loopVars, disconnected,
                   pipeVars>>

\* The updateOne of the categoryTree document settles; the report is logged
\* and the finally block entered.
CatTreeDone ==
    /\ script = "categories"
    /\ pc = "updateOne"
    /\ LET res == BulkWrite(db.categoryTree, pending, TRUE, storeRejects)
       IN /\ db' = [db EXCEPT !.categoryTree = res.coll]
          /\ IF res.failed
             THEN Fatal(Message("update failed"))
             ELSE /\ EnterFinally
                  /\ UNCHANGED <<err, exitCode>>
    /\ pending' = <<>>
    /\ UNCHANGED <<script, attempt, inputs, skipStats, submitted, treeVars,
                   loopVars, disconnected, pipeVars>>

\* ------------------------------------------------- migrateVendors.ts driver
\* loadCSV resolves; rows.map(...), the filter of the nulls, the bulk write
VendLoaded ==
    /\ script = "vendors"
    /\ pc = "loadCSV"
    /\ LET st == VendorRows([ops |-> <<>>, skipStats |-> skipStats], files.vendors)
       IN /\ skipStats' = st.skipStats
          /\ IF NothingToWrite(st.ops, files.vendors)
             THEN /\ Fatal(Message("No valid vendors to migrate"))
                  /\ UNCHANGED <<pending, submitted>>
             ELSE /\ pending' = st.ops
                  /\ submitted' = Append(submitted, [coll |-> "vendors", ops |-> st.ops])
                  /\ pc' = "bulkWrite"
                  /\ UNCHANGED <<err, exitCode>>
    /\ UNCHANGED <<script, attempt, inputs, db, treeVars, loopVars, disconnected,
                   pipeVars>>

\* db.collection('vendors').bulkWrite(ops) settles (an ordered write).
VendBulkDone ==
    /\ script = "vendors"
    /\ pc = "bulkWrite"
    /\ LET res == BulkWrite(db.vendors, pending, TRUE, storeRejects)
       IN /\ db' = [db EXCEPT !.vendors = res.coll]
          /\ IF res.failed
             THEN Fatal(Message("bulk write failed"))
             ELSE /\ EnterFinally
                  /\ UNCHANGED <<err, exitCode>>
    /\ pending' = <<>>
    /\ UNCHANGED <<script, attempt, inputs, skipStats, submitted, treeVars,
                   loopVars, disconnected, pipeVars>>

\* ------------------------------------------------ migrateProducts.ts driver
\* The rows of one batch, in order; every row handled is logged with the loop
\* state before and after it.  acc = [st, log].
LogRow(acc, p, b, after) ==
    [st |-> after,
     log |-> Append(acc.log, [batch |-> b, row |-> p, before |-> acc.st,
                              after |-> after])]

RECURSIVE BatchRows(_, _, _, _, _)
BatchRows(acc, rows, b, vm, cm) ==
    IF rows = <<>> THEN acc
    ELSE BatchRows(LogRow(acc, rows[1], b, ProcessRow(acc.st, rows[1], vm, cm)),
                   Tail(rows), b, vm, cm)

\* The batch loop from batch b up to its next await: the bulkWrite of the
\* first batch with operations (if (ops.length)), or the end of the loop.
RECURSIVE RunLoop(_, _, _, _, _, _, _)
RECURSIVE AfterBatch(_, _, _, _, _)
AfterBatch(b, bs, r, vm, cm) ==
    IF r.st.ops # <<>>
    THEN [next |-> "bulkWrite", batchNo |-> b, ops |-> r.st.ops,
          skipStats |-> r.st.skipStats,
          missingVendorRows |-> r.st.missingVendorRows, log |-> r.log]
    ELSE RunLoop(b + 1, bs, r.st.skipStats, r.st.missingVendorRows, r.log, vm, cm)

RunLoop(b, bs, stats, mvr, log, vm, cm) ==
    IF b > Len(bs)
    THEN [next |-> "report", batchNo |-> b, ops |-> <<>>, skipStats |-> stats,
          missingVendorRows |-> mvr, log |-> log]
    ELSE AfterBatch(b, bs,
                    BatchRows([st |-> [ops |-> <<>>, skipStats |-> stats,
                                       missingVendorRows |-> mvr],
                               log |-> log],
                              bs[b], b, vm, cm),
                    vm, cm)

\* The lines of data/missing_vendors.csv after the header: per row the SKU,
\* the VENDOR cell ('(empty)' for an empty one) and the CATEGORY_CODE.
CsvLines(mvr) ==
    [i \in DOMAIN mvr |->
        [SKU |-> mvr[i].SKU,
         VENDOR |-> IF mvr[i].VENDOR = <<>> THEN <<"(empty)">> ELSE mvr[i].VENDOR,
         CATEGORY_CODE |-> mvr[i].CATEGORY_CODE]]

\* The script at the loop's next await (r is RunLoop's result): a bulkWrite is
\* submitted, or the report is written and the finally block entered.
ResumeAt(r) ==
    /\ skipStats' = r.skipStats
    /\ missingVendorRows' = r.missingVendorRows
    /\ rowLog' = r.log
    /\ batchNo' = r.batchNo
    /\ pending' = r.ops
    /\ IF r.next = "bulkWrite"
       THEN /\ submitted' = Append(submitted, [coll |-> "products", ops |-> r.ops,
                                                batch |-> r.batchNo])
            /\ pc' = "bulkWrite"
            /\ UNCHANGED outFile
       ELSE /\ EnterFinally
            /\ outFile' = IF r.missingVendorRows # <<>>
                          THEN [written |-> TRUE,
                                lines |-> CsvLines(r.missingVendorRows)]
                          ELSE outFile
            /\ UNCHANGED submitted

\* The two countDocuments settle.
ProdCounted ==
    /\ script = "products"
    /\ pc = "countDocuments"
    /\ IF Len(db.vendors) = 0 \/ Len(db.categories) = 0
       THEN Fatal(Message("Run vendor & category migrations first"))
       ELSE /\ pc' = "loadCSV"
            /\ UNCHANGED <<err, exitCode>>
    /\ UNCHANGED <<script, attempt, inputs, db, skipStats, pending, submitted,
                   treeVars, loopVars, disconnected, pipeVars>>

\* loadCSV resolves; batchSize is read; the two find() are submitted.
ProdLoaded ==
    /\ script = "products"
    /\ pc = "loadCSV"
    /\ pc' = "find"
    /\ UNCHANGED <<script, attempt, inputs, db, skipStats, pending, submitted,
                   treeVars, loopVars, err, exitCode, disconnected, pipeVars>>

\* The two find().toArray() settle: the indexes are built, the statistics
\* reset, the rows chunked and the loop entered.  Where chunkArray does not
\* return, the script stays in it until the process runs out of memory.
ProdFound ==
    /\ script = "products"
    /\ pc = "find"
    /\ IF ChunkingDiverges(files.products, BatchSizeOf(batchEnv))
       THEN /\ pc' = "chunkArray"
            /\ vendorMap' = BuildIndex(<<>>, db.vendors)
            /\ categoryMap' = BuildIndex(<<>>, db.categories)
            /\ skipStats' = ProductStats0
            /\ UNCHANGED <<pending, submitted, batches, batchNo, missingVendorRows,
                           rowLog, outFile>>
       ELSE /\ vendorMap' = BuildIndex(<<>>, db.vendors)
            /\ categoryMap' = BuildIndex(<<>>, db.categories)
            /\ batches' = chunkArray(files.products, BatchSizeOf(batchEnv))
            /\ ResumeAt(RunLoop(1, batches', ProductStats0, <<>>, <<>>, vendorMap',
                                categoryMap'))
    /\ UNCHANGED <<script, attempt, inputs, db, treeVars, err, exitCode,
                   disconnected, pipeVars>>

\* The error of a rejected bulkWrite reaches the catch block of the script.
BulkWriteRejected == Fatal(Message("bulk write failed"))

\* The store's answer to the awaited product bulkWrite (res): on a rejection
\* the error propagates, otherwise the loop goes on with the next batch.
AfterProductWrite(res) ==
    /\ db' = [db EXCEPT !.products = res.coll]
    /\ IF res.failed
       THEN /\ BulkWriteRejected
            /\ UNCHANGED <<skipStats, pending, submitted, missingVendorRows,
                           rowLog, batchNo, outFile>>
       ELSE /\ ResumeAt(RunLoop(batchNo + 1, batches, skipStats, missingVendorRows,
                                rowLog, vendorMap, categoryMap))
            /\ UNCHANGED <<err, exitCode>>

\* bulkWrite(ops, { ordered: false }) of one batch settles.
ProdBulkDone ==
    /\ script = "products"
    /\ pc = "bulkWrite"
    /\ AfterProductWrite(BulkWrite(db.products, pending, FALSE, storeRejects))
    /\ UNCHANGED <<script, attempt, inputs, treeVars, vendorMap, categoryMap,
                   batches, disconnected, pipeVars>>

\* --------------------------------------------------------- string literals
C01 == <<"0", "1">>
C02 == <<"0", "2">>
C0101 == <<"0", "1", "0", "1">>
C0102 == <<"0", "1", "0", "2">>
C010101 == <<"0", "1", "0", "1", "0", "1">>
C011 == <<"0", "1", "1">>
C77 == <<"7", "7">>
V34 == <<"3", "4">>
V034 == <<"0", "3", "4">>
V99 == <<"9", "9">>
P20230115 == <<"2", "0", "2", "3", "0", "1", "1", "5">>
P20231345 == <<"2", "0", "2", "3", "1", "3", "4", "5">>
P2023 == <<"2", "0", "2", "3">>
D_1_15_2020 == <<"1", "/", "1", "5", "/", "2", "0", "2", "0">>
D_13_1_2020 == <<"1", "3", "/", "1", "/", "2", "0", "2", "0">>
D_1_32_2020 == <<"1", "/", "3", "2", "/", "2", "0", "2", "0">>
D_1_1_1999 == <<"1", "/", "1", "/", "1", "9", "9", "9">>
D_a_1_2020 == <<"a", "/", "1", "/", "2", "0", "2", "0">>
D_1_1 == <<"1", "/", "1">>
D_9_23_2020 == <<"9", "/", "2", "3", "/", "2", "0", "2", "0">>
S1 == <<"s", "1">>
S2 == <<"s", "2">>
S3 == <<"s", "3">>
S4 == <<"s", "4">>
S5 == <<"s", "5">>
S6 == <<"s", "6">>
S7 == <<"s", "7">>
S8 == <<"s", "8">>

\* ----------------------------------------------------------------- inputs
SeqsUpTo(S, n) == UNION {[1..k -> S] : k \in 0..n}

\* The label of the i-th row of a file: labels are opaque, so every row gets
\* its own.
Names == <<"n1", "n2", "n3", "n4", "n5", "n6", "n7", "n8">>
Skus == <<S1, S2, S3, S4, S5, S6, S7, S8>>

\* CATEGORY_CODE values: two roots, two children of "01", a grandchild whose
\* parent may or may not be listed, and a malformed code (odd length).
CatCodes == {C01, C02, C0101, C0102, C010101, C011}

CategoryRows(codes) ==
    [i \in DOMAIN codes |-> [CATEGORY_CODE |-> codes[i], CATEGORY_NAME |-> Names[i]]]

\* Vendor dates: valid; month 13; day 32; year 1999; a non-numeric month; a
\* missing year; the empty string.
VendorCreateDates == {D_1_15_2020, D_13_1_2020, D_1_32_2020, D_1_1_1999,
                      D_a_1_2020, D_1_1, <<>>}
VendorModifiedDates == {D_9_23_2020, D_a_1_2020}
VendorIds == {V34, V034}

VendorKinds ==
    [VENDOR_ID : VendorIds, CREATE_DATE : VendorCreateDates,
     LAST_MODIFIED_DATE : VendorModifiedDates]

VendorRowsOf(kinds) ==
    [i \in DOMAIN kinds |->
        [VENDOR_ID |-> kinds[i].VENDOR_ID, VENDOR_NAME |-> Names[i],
         CREATE_DATE |-> kinds[i].CREATE_DATE,
         LAST_MODIFIED_DATE |-> kinds[i].LAST_MODIFIED_DATE]]

ProductKind(v, c, created, modified) ==
    [VENDOR |-> v, CATEGORY_CODE |-> c, CREATED_DATE |-> created,
     LAST_MODIFIED_DATE |-> modified]

\* Product rows against the seeded store (vendor "34", category "01"): vendor
\* found, unknown or blank; category found or unknown; dates well-formed, out
\* of range (month 13, day 45) or not 8 digits.
ProductKinds ==
    {ProductKind(V34, C01, P20230115, P20230115),
     ProductKind(V99, C01, P20230115, P20230115),
     ProductKind(<<>>, C01, P20230115, P20230115),
     ProductKind(V34, C77, P20230115, P20230115),
     ProductKind(V99, C77, P20230115, P20230115),
     ProductKind(V99, C01, P2023, P20230115),
     ProductKind(V34, C01, P20231345, P20230115),
     ProductKind(V34, C01, P20230115, P2023),
     ProductKind(V34, C77, P2023, P20230115)}

ProductRowsOf(kinds) ==
    [i \in DOMAIN kinds |->
        [SKU |-> Skus[i], VENDOR |-> kinds[i].VENDOR,
         CATEGORY_CODE |-> kinds[i].CATEGORY_CODE,
         CREATED_DATE |-> kinds[i].CREATED_DATE,
         LAST_MODIFIED_DATE |-> kinds[i].LAST_MODIFIED_DATE]]

NoFiles == [categories |-> <<>>, vendors |-> <<>>, products |-> <<>>]

\* A store after earlier category and vendor migrations.
SeedDb ==
    [categories |-> <<[_id |-> C01, name |-> "Dinnerware"]>>,
     categoryTree |-> <<>>,
     vendors |-> <<[_id |-> V34, name |-> "MARSAL & SONS",
                    createdAt |-> [year |-> 2020, month |-> 11, day |-> 18],
                    updatedAt |-> [year |-> 2020, month |-> 9, day |-> 23]]>>,
     products |-> <<>>]

\* A store whose vendors collection is still empty.
CategoriesOnlyDb == [SeedDb EXCEPT !.vendors = <<>>]

BatchEnvs == {Unset, EnvValue(<<"1">>), EnvValue(<<"2">>)}

\* ------------------------------------------------------------------- Init
InitCategories ==
    /\ script = "categories"
    /\ \E codes \in SeqsUpTo(CatCodes, MaxCatRows) :
          files = [NoFiles EXCEPT !.categories = CategoryRows(codes)]
    /\ batchEnv = Unset
    /\ db = EmptyDb
    /\ storeRejects = {}

InitVendors ==
    /\ script = "vendors"
    /\ \E kinds \in SeqsUpTo(VendorKinds, MaxVendRows) :
          files = [NoFiles EXCEPT !.vendors = VendorRowsOf(kinds)]
    /\ batchEnv = Unset
    /\ db = EmptyDb
    /\ storeRejects = {}

InitProducts ==
    /\ script = "products"
    /\ \E kinds \in SeqsUpTo(ProductKinds, MaxProdRows) :
          files = [NoFiles EXCEPT !.products = ProductRowsOf(kinds)]
    /\ batchEnv \in BatchEnvs
    /\ db \in {SeedDb, CategoriesOnlyDb}
    /\ storeRejects \in {{}, {S2}}

\* One run of one of the three scripts.
Init ==
    /\ FreshLocals
    /\ stage = 0
    /\ snapshot = EmptyDb
    /\ mongoUri = TRUE
    /\ \/ InitCategories
       \/ InitVendors
       \/ InitProducts

Next ==
    \/ ValidateConfig
    \/ ConnectOk
    \/ ConnectFail
    \/ RetryDelayElapsed
    \/ Disconnect
    \/ CatLoaded
    \/ CatBulkDone
    \/ CatTreeDone
    \/ VendLoaded
    \/ VendBulkDone
    \/ ProdCounted
    \/ ProdLoaded
    \/ ProdFound
    \/ ProdBulkDone

Spec == Init /\ [][Next]_vars

\* ------------------------------------------------- the product batch loop
\* Rows the seeded store resolves in full: the vendor literally or through
\* its zero-stripped alias.
GoodProductKinds ==
    {ProductKind(V34, C01, P20230115, P20230115),
     ProductKind(V034, C01, P20230115, P20230115)}

\* BATCH_SIZE unset, empty, canonical, with a leading zero, with a trailing
\* letter, zero.
BatchSizeEnvs ==
    {Unset, EnvValue(<<>>), EnvValue(<<"1">>), EnvValue(<<"2">>), EnvValue(<<"3">>),
     EnvValue(<<"0", "2">>), EnvValue(<<"2", "a">>), EnvValue(<<"0">>)}

InitBatch ==
    /\ FreshLocals
    /\ stage = 0
    /\ snapshot = EmptyDb
    /\ mongoUri = TRUE
    /\ script = "products"
    /\ \E kinds \in SeqsUpTo(GoodProductKinds, MaxBatchRows) :
          files = [NoFiles EXCEPT !.products = ProductRowsOf(kinds)]
    /\ batchEnv \in BatchSizeEnvs
    /\ db = SeedDb
    /\ storeRejects \in {{}, {S2}}

NextBatch ==
    \/ ValidateConfig
    \/ ConnectOk
    \/ ConnectFail
    \/ RetryDelayElapsed
    \/ Disconnect
    \/ ProdCounted
    \/ ProdLoaded
    \/ ProdFound
    \/ ProdBulkDone

\* One run of the product script over rows that all resolve.
SpecBatch == InitBatch /\ [][NextBatch]_vars

\* ----------------------------------------------------------- the pipeline
\* npm run migrate:categories, migrate:vendors, migrate:products, and the
\* three once more.
PipeOrder == <<"categories", "vendors", "products",
               "categories", "vendors", "products">>

\* The process of one script has ended; the next script of the pipeline is
\* started on the same files and the same store.
NextScript ==
    /\ pc \in {"done", "exited"}
    /\ stage + 1 < Len(PipeOrder)
    /\ stage' = stage + 1
    /\ script' = PipeOrder[stage + 2]
    /\ snapshot' = IF stage = 2 THEN db ELSE snapshot
    /\ pc' = "start"
    /\ attempt' = 0
    /\ skipStats' = NoStats
    /\ pending' = <<>>
    /\ submitted' = <<>>
    /\ heap' = EmptyHeap
    /\ vendorMap' = <<>>
    /\ categoryMap' = <<>>
    /\ batches' = <<>>
    /\ batchNo' = 0
    /\ missingVendorRows' = <<>>
    /\ rowLog' = <<>>
    /\ outFile' = NoFile
    /\ err' = NoError
    /\ exitCode' = -1
    /\ disconnected' = FALSE
    /\ UNCHANGED <<inputs, db>>

PipeCatCodes == {C01, C0101, C011}

PipeVendorKinds ==
    {[VENDOR_ID |-> V34, CREATE_DATE |-> D_1_15_2020, LAST_MODIFIED_DATE |-> D_9_23_2020],
     [VENDOR_ID |-> V034, CREATE_DATE |-> D_1_15_2020, LAST_MODIFIED_DATE |-> D_9_23_2020],
     [VENDOR_ID |-> V34, CREATE_DATE |-> D_13_1_2020, LAST_MODIFIED_DATE |-> D_9_23_2020]}

\* Product rows with their SKU written out: two rows may carry the same SKU.
PipeProducts ==
    [SKU : {S1, S2}, VENDOR : {V34, V99}, CATEGORY_CODE : {C01},
     CREATED_DATE : {P20230115}, LAST_MODIFIED_DATE : {P20230115}]

\* A store holding documents of an earlier, different input.
StaleDb ==
    [SeedDb EXCEPT
        !.categoryTree = <<[_id |-> <<"categoryTree">>, children |-> <<>>]>>,
        !.products = <<[_id |-> S1, createdAt |-> [year |-> 2019, month |-> 1, day |-> 1],
                        updatedAt |-> [year |-> 2019, month |-> 1, day |-> 1],
                        vendor |-> Null,
                        category |-> [_id |-> C02, name |-> "Flatware"],
                        color |-> "red"]>>]

PipeStores == {EmptyDb, SeedDb, StaleDb}

InitPipeline ==
    /\ FreshLocals
    /\ stage = 0
    /\ snapshot = EmptyDb
    /\ mongoUri = TRUE
    /\ script = PipeOrder[1]
    /\ \E a \in 0..MaxPipeRows :
          \E b \in 0..(MaxPipeRows - a) :
             \E c \in 0..(MaxPipeRows - a - b) :
                \E codes \in [1..a -> PipeCatCodes] :
                   \E kinds \in [1..b -> PipeVendorKinds] :
                      \E rows \in [1..c -> PipeProducts] :
                         files = [categories |-> CategoryRows(codes),
                                  vendors |-> VendorRowsOf(kinds),
                                  products |-> rows]
    /\ batchEnv \in {Unset, EnvValue(<<"1">>)}
    /\ db \in PipeStores
    /\ storeRejects \in {{}, {S2}}

\* The store is reachable throughout the pipeline.
NextPipeline ==
    \/ ValidateConfig
    \/ ConnectOk
    \/ Disconnect
    \/ CatLoaded
    \/ CatBulkDone
    \/ CatTreeDone
    \/ VendLoaded
    \/ VendBulkDone
    \/ ProdCounted
    \/ ProdLoaded
    \/ ProdFound
    \/ ProdBulkDone
    \/ NextScript

\* The three scripts run in order, twice, on the same files.
SpecPipeline == InitPipeline /\ [][NextPipeline]_vars

\* ------------------------------------------------- reference resolution
\* Ids that differ in their leading zeros only.
Cat1 == <<"1">>
Cat001 == <<"0", "0", "1">>
V0034 == <<"0", "0", "3", "4">>
RefVendorIds == {V34, V034, V0034}
RefCategoryIds == {C01, Cat1, Cat001}

\* The sequences over S without a repeated element (_id is unique in a
\* collection), in every order find() may return them.
DistinctSeqs(S, n) ==
    {q \in SeqsUpTo(S, n) : \A i, j \in DOMAIN q : q[i] = q[j] => i = j}

VendorDocs(ids) ==
    [i \in DOMAIN ids |->
        [_id |-> ids[i], name |-> Names[i],
         createdAt |-> [year |-> 2020, month |-> 1, day |-> 15],
         updatedAt |-> [year |-> 2020, month |-> 9, day |-> 23]]]

CategoryDocs(ids) == [i \in DOMAIN ids |-> [_id |-> ids[i], name |-> Names[i]]]

\* The stores the product script may find: the vendors or the categories of
\* the seeded store replaced by up to MaxRefRecords records.
RefStores ==
    {[SeedDb EXCEPT !.vendors = VendorDocs(ids)] :
        ids \in DistinctSeqs(RefVendorIds, MaxRefRecords)}
    \cup {[SeedDb EXCEPT !.categories = CategoryDocs(ids)] :
            ids \in DistinctSeqs(RefCategoryIds, MaxRefRecords)}

LookupKinds ==
    {ProductKind(v, c, P20230115, P20230115) :
        v \in RefVendorIds \cup {V99, <<>>}, c \in RefCategoryIds \cup {C77}}

InitResolve ==
    /\ FreshLocals
    /\ stage = 0
    /\ snapshot = EmptyDb
    /\ mongoUri = TRUE
    /\ script = "products"
    /\ \E kinds \in SeqsUpTo(LookupKinds, MaxLookupRows) :
          files = [NoFiles EXCEPT !.products = ProductRowsOf(kinds)]
    /\ batchEnv = Unset
    /\ db \in RefStores
    /\ storeRejects \in {{}, {S1}}

NextResolve ==
    \/ ValidateConfig
    \/ ConnectOk
    \/ Disconnect
    \/ ProdCounted
    \/ ProdLoaded
    \/ ProdFound
    \/ ProdBulkDone

\* One run of the product script against the stores above.
SpecResolve == InitResolve /\ [][NextResolve]_vars

\* ------------------------------------------------------------- connectDB
\* A script up to the return of connectDB, with or without MONGO_URI, with an
\* accepted or a rejected BATCH_SIZE.
InitConnect ==
    /\ FreshLocals
    /\ stage = 0
    /\ snapshot = EmptyDb
    /\ mongoUri \in BOOLEAN
    /\ \E name \in {"categories", "vendors", "products"} :
          /\ script = name
          /\ \E kinds \in SeqsUpTo(VendorKinds, MaxVendRows) :
                files = [NoFiles EXCEPT ![name] =
                            IF name = "vendors" THEN VendorRowsOf(kinds) ELSE <<>>]
    /\ batchEnv \in {Unset, EnvValue(<<"0">>)}
    /\ db = SeedDb
    /\ storeRejects = {}

NextConnect ==
    \/ ValidateConfig
    \/ ConnectOk
    \/ ConnectFail
    \/ RetryDelayElapsed

\* mongoose.connect settles within serverSelectionTimeoutMS and the timer of
\* the retry delay fires.
SpecConnect == InitConnect /\ [][NextConnect]_vars /\ WF_vars(NextConnect)

\* ================================================================ claims
\* The category script has built the tree (its heap is kept from then on).
TreeBuilt == script = "categories" /\ pc \in {"updateOne", "disconnect", "done"}

ValidCodes == {r.CATEGORY_CODE : r \in Range(ValidCategories(files.categories))}

DistinctCodes ==
    \A i, j \in DOMAIN files.categories :
        files.categories[i].CATEGORY_CODE = files.categories[j].CATEGORY_CODE => i = j

\* The node nodeMap holds for a code.
NodeFor(code) == MapGet(heap.nodeMap, code, NoNode)

\* The nodes whose children array holds node n.
ParentsOf(n) == {m \in DOMAIN heap.nodes : n \in Range(ChildrenOf(heap, m))}

\* C1: for an input of valid records with distinct codes, in any order, the
\* node of a code longer than 2 is in the children of the node of its parent
\* code and of no other node when the parent code is in the input, and in no
\* node's children when it is not.
C1_DirectAttachment ==
    (TreeBuilt /\ DistinctCodes) =>
        \A c \in ValidCodes :
            Len(c) > 2 =>
                IF parentCode(c) \in ValidCodes
                THEN ParentsOf(NodeFor(c)) = {NodeFor(parentCode(c))}
                ELSE ParentsOf(NodeFor(c)) = {}

\* C1 witness: a child listed before its parent, and an orphan, both built.
C1_Witness ==
    /\ TreeBuilt
    /\ DistinctCodes
    /\ Len(files.categories) = 3
    /\ files.categories[1].CATEGORY_CODE = C0101
    /\ files.categories[2].CATEGORY_CODE = C01
    /\ ParentsOf(NodeFor(C0101)) = {NodeFor(C01)}

\* The category script has written the categoryTree document.
TreeWritten == script = "categories" /\ pc \in {"disconnect", "done"}

\* The forest as stored: the children of the categoryTree document.
StoredForest == db.categoryTree[1].children

RECURSIVE DocIds(_)
DocIds(docs) ==
    UNION {{docs[i]._id} \cup DocIds(docs[i].children) : i \in DOMAIN docs}

\* The proper prefixes of a code made of whole 2-character pairs.
PairPrefixes(code) == {Slice(code, 0, 2 * k) : k \in 1..((Len(code) \div 2) - 1)}

\* C2: a code is in the stored forest exactly when it and all its pair
\* prefixes are codes of the input; every root has an id of length 2; and
\* every valid code, in the forest or not, has its upsert submitted and its
\* document in the categories collection.
C2_SilentOrphaning ==
    TreeWritten =>
        /\ \A c \in ValidCodes :
              (c \in DocIds(StoredForest)) <=> (PairPrefixes(c) \subseteq ValidCodes)
        /\ DocIds(StoredForest) \subseteq ValidCodes
        /\ \A i \in DOMAIN StoredForest : Len(StoredForest[i]._id) = 2
        /\ \A c \in ValidCodes :
              /\ \E i \in DOMAIN submitted[1].ops : submitted[1].ops[i].filter = c
              /\ HasDoc(db.categories, c)

\* C2 witness: the input {"01", "010101"}: "010101" is stored as a category
\* and is nowhere in the forest.
C2_Witness ==
    /\ TreeWritten
    /\ ValidCodes = {C01, C010101}
    /\ DocIds(StoredForest) = {C01}
    /\ HasDoc(db.categories, C010101)

\* ---------------------------------------------------- product resolution
\* A persisted record answers the id literally or through the zero-stripped
\* alias, on either side.
Known(coll, id) ==
    \E i \in DOMAIN coll :
        \/ coll[i]._id = id
        \/ stripZeros(coll[i]._id) = id
        \/ coll[i]._id = stripZeros(id)
        \/ stripZeros(coll[i]._id) = stripZeros(id)

CategoryKnown(p) == Known(db.categories, p.CATEGORY_CODE)
VendorKnown(p) == Known(db.vendors, p.VENDOR)

\* A product date the format test lets through: exactly 8 digits.
EightDigits(s) == Len(s) = 8 /\ AllDigits(s)

DatesWellFormed(p) == EightDigits(p.CREATED_DATE) /\ EightDigits(p.LAST_MODIFIED_DATE)

\* The row of log entry e pushed one operation.
Pushed(e) == Len(e.after.ops) = Len(e.before.ops) + 1

PushedOp(e) == e.after.ops[Len(e.after.ops)]

\* The operation of entry e is in the write set submitted for its batch.
InBatchWrite(e) ==
    \E w \in DOMAIN submitted :
        /\ submitted[w].coll = "products"
        /\ submitted[w].batch = e.batch
        /\ Len(e.after.ops) \in DOMAIN submitted[w].ops
        /\ submitted[w].ops[Len(e.after.ops)] = PushedOp(e)

\* Entry e counted its row as a vendor miss and as nothing else.
OnlyVendorMiss(e) ==
    /\ e.after.skipStats.missingVendor = e.before.skipStats.missingVendor + 1
    /\ e.after.skipStats.skippedRows = e.before.skipStats.skippedRows
    /\ e.after.skipStats.missingCategory = e.before.skipStats.missingCategory
    /\ e.after.skipStats.missingBoth = e.before.skipStats.missingBoth
    /\ e.after.skipStats.otherErrors = e.before.skipStats.otherErrors

PersistedWithNullVendor(e) ==
    /\ Pushed(e)
    /\ PushedOp(e).filter = e.row.SKU
    /\ PushedOp(e).set.vendor = Null
    /\ InBatchWrite(e)
    /\ OnlyVendorMiss(e)

\* C3 as stated: every row whose category resolves and whose vendor does not
\* is persisted with vendor = null and counted only in missingVendor.
C3_AsStated ==
    \A i \in DOMAIN rowLog :
        (CategoryKnown(rowLog[i].row) /\ ~VendorKnown(rowLog[i].row))
            => PersistedWithNullVendor(rowLog[i])

\* C3, amended: every row whose category resolves, whose vendor does not and
\* whose two dates are strings of exactly 8 digits is persisted with
\* vendor = null in its batch's write set and counted only in missingVendor.
C3_OptionalVendor ==
    \A i \in DOMAIN rowLog :
        (/\ CategoryKnown(rowLog[i].row)
         /\ ~VendorKnown(rowLog[i].row)
         /\ DatesWellFormed(rowLog[i].row))
            => PersistedWithNullVendor(rowLog[i])

\* C3 witness: a run that ended normally and persisted a row with an unknown
\* vendor and one with a blank vendor.
C3_Witness ==
    /\ script = "products"
    /\ pc = "done"
    /\ \E i, j \in DOMAIN rowLog :
          /\ rowLog[i].row.VENDOR = V99
          /\ rowLog[j].row.VENDOR = <<>>
          /\ PersistedWithNullVendor(rowLog[i])
          /\ PersistedWithNullVendor(rowLog[j])
          /\ HasDoc(db.products, rowLog[i].row.SKU)

\* Entry e dropped its row for its category.
DroppedForCategory(e) ==
    /\ e.after.ops = e.before.ops
    /\ e.after.skipStats.skippedRows = e.before.skipStats.skippedRows + 1
    /\ e.after.skipStats.missingCategory = e.before.skipStats.missingCategory + 1
    /\ e.after.skipStats.missingVendor =
          e.before.skipStats.missingVendor + (IF VendorKnown(e.row) THEN 0 ELSE 1)
    /\ e.after.skipStats.missingBoth = e.before.skipStats.missingBoth
    /\ e.after.skipStats.otherErrors = e.before.skipStats.otherErrors

\* No operation of a submitted write comes from the row of entry i: each
\* operation of the write of its batch is the one another row pushed.
NeverSubmitted(i) ==
    \A w \in DOMAIN submitted :
        (submitted[w].coll = "products" /\ submitted[w].batch = rowLog[i].batch) =>
            \A k \in DOMAIN submitted[w].ops :
                \E j \in DOMAIN rowLog :
                    /\ j # i
                    /\ rowLog[j].batch = rowLog[i].batch
                    /\ Pushed(rowLog[j])
                    /\ Len(rowLog[j].after.ops) = k
                    /\ submitted[w].ops[k] = PushedOp(rowLog[j])

\* C4: a row whose category does not resolve pushes no operation, whether or
\* not its vendor resolves, and none is submitted for it; it is counted once
\* in skippedRows and missingCategory, and in missingVendor too when its
\* vendor is unresolved.
C4_MandatoryCategory ==
    \A i \in DOMAIN rowLog :
        ~CategoryKnown(rowLog[i].row) =>
            /\ DroppedForCategory(rowLog[i])
            /\ NeverSubmitted(i)

\* C4 witness: a finished run that dropped a row with a known vendor and one
\* with an unknown vendor, beside a row it persisted.
C4_Witness ==
    /\ script = "products"
    /\ pc = "done"
    /\ Len(db.products) = 1
    /\ \E i, j \in DOMAIN rowLog :
          /\ ~CategoryKnown(rowLog[i].row) /\ VendorKnown(rowLog[i].row)
          /\ ~CategoryKnown(rowLog[j].row) /\ ~VendorKnown(rowLog[j].row)
          /\ DroppedForCategory(rowLog[i])
          /\ DroppedForCategory(rowLog[j])

\* ------------------------------------------------------------ date checks
\* The month and the day an 8-digit product date names.
MonthOf(s) == DecimalValue(Slice(s, 4, 6))
DayOf(s) == DecimalValue(Slice(s, 6, 8))

\* A product date in YYYYMMDD form whose month is 1..12 and day 1..31.
ProductDateInRange(s) ==
    /\ EightDigits(s)
    /\ MonthOf(s) >= 1 /\ MonthOf(s) <= 12
    /\ DayOf(s) >= 1 /\ DayOf(s) <= 31

ProductDatesInRange(p) ==
    ProductDateInRange(p.CREATED_DATE) /\ ProductDateInRange(p.LAST_MODIFIED_DATE)

\* C5 as stated: a category-resolved row with a product date whose month is
\* outside 1..12 or whose day is outside 1..31 is rejected (skipped, counted
\* in the catch-all bucket), so every row that pushes an upsert carries
\* dates within these ranges.
C5_ProductDatesValidated ==
    \A i \in DOMAIN rowLog :
        /\ Pushed(rowLog[i]) => ProductDatesInRange(rowLog[i].row)
        /\ (CategoryKnown(rowLog[i].row) /\ ~ProductDatesInRange(rowLog[i].row)) =>
              /\ ~Pushed(rowLog[i])
              /\ rowLog[i].after.skipStats.skippedRows =
                    rowLog[i].before.skipStats.skippedRows + 1
              /\ rowLog[i].after.skipStats.otherErrors =
                    rowLog[i].before.skipStats.otherErrors + 1

\* The three components of an M/D/YYYY vendor date are present and numeric,
\* month 1..12, day 1..31, year 2000 or later.
VendorDateInRange(s) ==
    /\ Len(Split(s, "/")) >= 3
    /\ \A k \in 1..3 : Split(s, "/")[k] # <<>> /\ AllDigits(Split(s, "/")[k])
    /\ DecimalValue(Split(s, "/")[1]) >= 1 /\ DecimalValue(Split(s, "/")[1]) <= 12
    /\ DecimalValue(Split(s, "/")[2]) >= 1 /\ DecimalValue(Split(s, "/")[2]) <= 31
    /\ DecimalValue(Split(s, "/")[3]) >= MIN_VENDOR_YEAR

VendorDatesInRange(v) ==
    VendorDateInRange(v.CREATE_DATE) /\ VendorDateInRange(v.LAST_MODIFIED_DATE)

\* The vendor rows have been mapped to operations.
VendorsMapped ==
    /\ script = "vendors"
    /\ \/ pc \in {"bulkWrite", "disconnect", "done"}
       \/ pc = "exited" /\ err.text \in {"No valid vendors to migrate", "bulk write failed"}

RowsInRange == SelectSeq(files.vendors, LAMBDA v : VendorDatesInRange(v))

VendorOps == IF pc = "bulkWrite" THEN pending
             ELSE IF submitted = <<>> THEN <<>> ELSE submitted[1].ops

\* C6 as stated: a vendor row with a date whose month, day or year is out of
\* range, a missing or a non-numeric component included, is skipped and
\* counted under invalidDates; the upserts are those of the remaining rows.
C6_VendorDatesValidated ==
    VendorsMapped =>
        /\ skipStats.invalidDates = Len(files.vendors) - Len(RowsInRange)
        /\ Len(VendorOps) = Len(RowsInRange)
        /\ \A k \in DOMAIN VendorOps :
              /\ k \in DOMAIN RowsInRange
              /\ VendorOps[k].filter = RowsInRange[k].VENDOR_ID
              /\ VendorOps[k].set.createdAt # InvalidDate
              /\ VendorOps[k].set.updatedAt # InvalidDate

\* ------------------------------------------------------ chunks and failures
\* Chunk b holds a row that yields an operation.
ChunkYieldsOps(b) ==
    \E k \in DOMAIN batches[b] :
        CategoryKnown(batches[b][k]) /\ DatesWellFormed(batches[b][k])

ChunkSubmitted(b) ==
    \E w \in DOMAIN submitted :
        submitted[w].coll = "products" /\ submitted[w].batch = b

\* C7 as stated: whatever the store answers to the write of a chunk, the
\* run has submitted the write of every chunk that yields operations by the
\* time it ends.
C7_ChunkFailureIsolated ==
    (script = "products" /\ pc \in {"done", "exited"}) =>
        \A b \in DOMAIN batches : ChunkYieldsOps(b) => ChunkSubmitted(b)

\* ------------------------------------------------------- row-level errors
\* Failures that are not the fault of a row.
EnvironmentFaults ==
    {"Missing required environment variable: MONGO_URI",
     "BATCH_SIZE must be a positive integer", "connect failed",
     "Run vendor & category migrations first", "bulk write failed",
     "update failed"}

\* Rows each script excludes for a fault of their own.
CategoryOffenders ==
    SelectSeq(files.categories, LAMBDA r : ~validateCategoryCode(r.CATEGORY_CODE))

VendorOffenders ==
    SelectSeq(files.vendors,
              LAMBDA v : parseVendorDate(v.CREATE_DATE).threw
                         \/ parseVendorDate(v.LAST_MODIFIED_DATE).threw)

ProductOffenders ==
    SelectSeq(files.products, LAMBDA p : ~CategoryKnown(p) \/ ~DatesWellFormed(p))

Offenders == IF script = "categories" THEN CategoryOffenders
             ELSE IF script = "vendors" THEN VendorOffenders
             ELSE ProductOffenders

InputRows == IF script = "categories" THEN files.categories
             ELSE IF script = "vendors" THEN files.vendors
             ELSE files.products

SkipTotal == IF script = "products" THEN skipStats.skippedRows ELSE skipStats.total

SubmittedOps == IF submitted = <<>> THEN 0
                ELSE IF script = "products"
                     THEN Len(SelectSeq(rowLog, LAMBDA e : Pushed(e)))
                     ELSE Len(submitted[1].ops)

\* The run ended with its report, every offender counted and left out.
ReportedWithSkips ==
    /\ pc = "done"
    /\ SkipTotal = Len(Offenders)
    /\ SubmittedOps = Len(InputRows) - Len(Offenders)

\* C8 as stated: row-level errors never put a run on the fatal path, for any
\* number of offending rows up to all of them: a run exits with an error
\* only for a fault of its environment or for a file without rows, and a run
\* that ends normally has counted and left out every offending row.
C8_AsStated ==
    /\ pc = "exited" => (err.text \in EnvironmentFaults \/ InputRows = <<>>)
    /\ pc = "done" => ReportedWithSkips

\* C8, amended: row-level errors never abort a run that has at least one
\* valid row to write. The category and the vendor script exit with
\* 'No valid categories found' / 'No valid vendors to migrate' exactly when
\* none of their rows is valid; the product script reports for any number of
\* offending rows.
C8_RowErrorsNeverAbort ==
    /\ pc = "exited" =>
          \/ err.text \in EnvironmentFaults
          \/ /\ script = "categories"
             /\ err.text = "No valid categories found"
             /\ Len(Offenders) = Len(InputRows)
          \/ /\ script = "vendors"
             /\ err.text = "No valid vendors to migrate"
             /\ Len(Offenders) = Len(InputRows)
    /\ pc = "done" => ReportedWithSkips

\* C8 witness: a category run that reported after skipping two of its three
\* rows.
C8_Witness ==
    /\ script = "categories"
    /\ ReportedWithSkips
    /\ Len(InputRows) = 3
    /\ Len(Offenders) = 2

\* ------------------------------------------------------ batch partitioning
RECURSIVE Concat(_)
Concat(seqs) == IF seqs = <<>> THEN <<>> ELSE seqs[1] \o Concat(Tail(seqs))

\* The rows have been partitioned.
Chunked ==
    /\ script = "products"
    /\ \/ pc \in {"bulkWrite", "disconnect", "done"}
       \/ pc = "exited" /\ err.text = "bulk write failed"

ChunkSize == BatchSizeOf(batchEnv)

CeilDiv(l, n) == (l + n - 1) \div n

AllRowsResolve ==
    \A k \in DOMAIN files.products :
        /\ CategoryKnown(files.products[k])
        /\ VendorKnown(files.products[k])
        /\ DatesWellFormed(files.products[k])

\* The write submitted for chunk b carries one upsert per row of the chunk.
OneUpsertPerRow(b) ==
    /\ submitted[b].coll = "products"
    /\ submitted[b].batch = b
    /\ Len(submitted[b].ops) = Len(batches[b])
    /\ \A k \in DOMAIN batches[b] : submitted[b].ops[k].filter = batches[b][k].SKU

NothingSkipped ==
    /\ skipStats.skippedRows = 0
    /\ skipStats.missingVendor = 0
    /\ skipStats.missingCategory = 0
    /\ skipStats.missingBoth = 0
    /\ skipStats.otherErrors = 0
    /\ skipStats.examples = <<>>

\* C9: for a batch size n >= 1 and L rows, chunkArray yields ceil(L/n)
\* consecutive chunks whose concatenation is the input, all of n rows but the
\* last, which has 1..n; when every row resolves and is valid, a run that
\* reports has submitted one bulk write per chunk with one upsert per row,
\* persisted every row and counted nothing in its skip statistics.
C9_BatchPartitioning ==
    (Chunked /\ ChunkSize >= 1) =>
        /\ Len(batches) = CeilDiv(Len(files.products), ChunkSize)
        /\ Concat(batches) = files.products
        /\ \A b \in DOMAIN batches :
              /\ b < Len(batches) => Len(batches[b]) = ChunkSize
              /\ Len(batches[b]) >= 1 /\ Len(batches[b]) <= ChunkSize
        /\ (AllRowsResolve /\ pc = "done") =>
              /\ Len(submitted) = Len(batches)
              /\ \A b \in DOMAIN batches : OneUpsertPerRow(b)
              /\ \A k \in DOMAIN files.products :
                    HasDoc(db.products, files.products[k].SKU)
              /\ NothingSkipped

\* C9 witness: five resolvable rows in batches of two, written as 2, 2, 1.
C9_Witness ==
    /\ Chunked
    /\ pc = "done"
    /\ ChunkSize = 2
    /\ Len(files.products) = 5
    /\ AllRowsResolve
    /\ Len(submitted) = 3
    /\ Len(submitted[1].ops) = 2
    /\ Len(submitted[2].ops) = 2
    /\ Len(submitted[3].ops) = 1
    /\ Len(db.products) = 5

\* ------------------------------------------------------------ idempotence
SecondPassEnded == stage = Len(PipeOrder) - 1 /\ pc \in {"done", "exited"}

\* C10: when the three scripts have run twice on the same files, the four
\* collections are what they were when the first pass ended.
C10_PipelineIdempotent ==
    SecondPassEnded =>
        /\ db.categories = snapshot.categories
        /\ db.categoryTree = snapshot.categoryTree
        /\ db.vendors = snapshot.vendors
        /\ db.products = snapshot.products

\* C10 witness: two passes from an empty store that wrote a category, its
\* tree, a vendor and one product for two rows of the same SKU.
C10_Witness ==
    /\ SecondPassEnded
    /\ pc = "done"
    /\ Len(files.products) = 2
    /\ Len(db.products) = 1
    /\ Len(db.vendors) = 1
    /\ Len(db.categories) = 1
    /\ Len(db.categoryTree) = 1
    /\ db = snapshot

\* ------------------------------------------------------- alias resolution
\* The two indexes have been built.
Indexed == Chunked

\* No other record of coll shares an id or an alias with record i.
Unrivalled(coll, i) ==
    \A j \in DOMAIN coll :
        j # i => stripZeros(coll[j]._id) # stripZeros(coll[i]._id)

\* Index m answers the id of record r and its zero-stripped form.
BothResolve(m, r) ==
    /\ Resolve(m, r._id) # Undefined
    /\ Resolve(m, stripZeros(r._id)) # Undefined

BothResolveTo(m, r) ==
    /\ Resolve(m, r._id)._id = r._id
    /\ Resolve(m, stripZeros(r._id))._id = r._id

AliasSymmetric(m, coll) ==
    \A i \in DOMAIN coll :
        /\ BothResolve(m, coll[i])
        /\ Unrivalled(coll, i) => BothResolveTo(m, coll[i])

\* C11: in the vendor index and in the category index, the literal id of a
\* persisted record and its zero-stripped form both resolve, and they resolve
\* to that record when the index holds no other record with the same alias
\* (an index built from "034" resolves "034" and "34").
C11_AliasSymmetric ==
    Indexed =>
        /\ AliasSymmetric(vendorMap, db.vendors)
        /\ AliasSymmetric(categoryMap, db.categories)

\* C11 witness: against the single vendor "034", a row naming vendor "34" was
\* written with that vendor.
C11_Witness ==
    /\ Indexed
    /\ pc = "done"
    /\ Len(db.vendors) = 1
    /\ db.vendors[1]._id = V034
    /\ Len(rowLog) = 1
    /\ rowLog[1].row.VENDOR = V34
    /\ Pushed(rowLog[1])
    /\ PushedOp(rowLog[1]).set.vendor._id = V034

\* ---------------------------------------------------- missing-vendor file
\* The product run has ended with its report.
Reported == script = "products" /\ pc \in {"disconnect", "done"}

UnresolvedVendorRows == SelectSeq(files.products, LAMBDA p : ~VendorKnown(p))

\* One line per row, the blank VENDOR written as "(empty)".
ExpectedLines(rows) ==
    [i \in DOMAIN rows |->
        [SKU |-> rows[i].SKU,
         VENDOR |-> IF rows[i].VENDOR = <<>> THEN <<"(empty)">> ELSE rows[i].VENDOR,
         CATEGORY_CODE |-> rows[i].CATEGORY_CODE]]

\* C12 as stated: at the end of a product run the missing-vendor file lists
\* every input row whose vendor did not resolve, one line per row, rows
\* dropped for their category included.
C12_MissingVendorFile ==
    Reported =>
        /\ outFile.written = (UnresolvedVendorRows # <<>>)
        /\ outFile.lines = ExpectedLines(UnresolvedVendorRows)

\* ----------------------------------------------------- literal precedence
\* Index m answers the literal id of every record of coll with that record.
LiteralFirst(m, coll) ==
    \A i \in DOMAIN coll : Resolve(m, coll[i]._id)._id = coll[i]._id

\* The operation of entry e references the records its row names literally.
WrittenWithLiteral(e) ==
    /\ HasDoc(db.vendors, e.row.VENDOR) =>
          PushedOp(e).set.vendor._id = e.row.VENDOR
    /\ HasDoc(db.categories, e.row.CATEGORY_CODE) =>
          PushedOp(e).set.category._id = e.row.CATEGORY_CODE

\* C13 as stated: whatever the order in which the store returns its records,
\* a lookup whose id equals the id of a record character for character
\* resolves to that record, in both indexes, and a row naming such a record
\* is written with it; an alias is used only when no record has the id.
C13_LiteralPrecedence ==
    Indexed =>
        /\ LiteralFirst(vendorMap, db.vendors)
        /\ LiteralFirst(categoryMap, db.categories)
        /\ \A i \in DOMAIN rowLog : Pushed(rowLog[i]) => WrittenWithLiteral(rowLog[i])

\* --------------------------------------------------------- bounded retry
InConnectDB == pc \in {"connect", "retryDelay"}

\* connectDB is never past its MAX_RETRIES-th attempt.
AttemptsBounded == attempt <= MAX_RETRIES /\ (InConnectDB => attempt >= 1)

\* What one step in or out of connectDB may do.
ConnectStep ==
    \* a failed attempt that is not the last is followed by the delay
    /\ (pc = "connect" /\ pc' = "retryDelay") =>
          attempt < MAX_RETRIES /\ attempt' = attempt
    \* the delay is followed by the next attempt
    /\ pc = "retryDelay" => (pc' = "connect" /\ attempt' = attempt + 1)
    \* the error is thrown by the last attempt only, without a delay
    /\ (pc = "connect" /\ pc' = "exited") =>
          attempt = MAX_RETRIES /\ err'.text = "connect failed"
    \* otherwise the connection is returned to the script
    /\ (pc = "connect" /\ ~InConnectDB' /\ pc' # "exited") =>
          pc' \in {"loadCSV", "countDocuments"} /\ err' = NoError
    \* no attempt is made after connectDB has ended
    /\ (~InConnectDB /\ pc # "start") => ~InConnectDB'
    \* connectDB never fails before its first attempt
    /\ err'.text # "MONGO_URI not defined in .env"

\* C14: connectDB makes at most MAX_RETRIES = 3 attempts; a successful attempt
\* returns the connection and ends it; a failed attempt that is not the last
\* waits and retries; the third failed attempt throws without waiting; every
\* call ends, with a connection or with the error of the third attempt.
C14_BoundedRetry ==
    /\ []AttemptsBounded
    /\ [][ConnectStep]_vars
    /\ (pc = "connect") ~> ~InConnectDB

\* C14 witness: connectDB gave up after its third failed attempt.
C14_Witness ==
    /\ pc = "exited"
    /\ err.text = "connect failed"
    /\ attempt = MAX_RETRIES

\* --------------------------------------------------- effective batch size
\* C15 as stated: for every BATCH_SIZE validateConfig accepts, the size
\* passed to chunkArray is a positive integer, the chunking loop ends and
\* every input row is in exactly one chunk.
C15_EffectiveBatchSize ==
    /\ BatchSizeAccepted(batchEnv) => ChunkSize >= 1
    /\ pc # "chunkArray"
    /\ Chunked => Concat(batches) = files.products

\* ------------------------------------------------------ connection release
\* The process has ended after its script called connectDB.
EndedAfterConnect ==
    \/ pc = "done"
    \/ /\ pc = "exited"
       /\ err.text \notin {"Missing required environment variable: MONGO_URI",
                           "BATCH_SIZE must be a positive integer"}

\* C16 as stated: in each script, when the process has ended after connectDB
\* was called, normally or through the catch block, disconnectDB has been
\* invoked.
C16_ConnectionReleased == EndedAfterConnect => disconnected

\* -------------------------------------------------------- duplicated nodes
\* How often a node with this id occurs in a forest, at any depth.
RECURSIVE Occurrences(_, _)
Occurrences(docs, id) ==
    IF docs = <<>> THEN 0
    ELSE (IF docs[1]._id = id THEN 1 ELSE 0)
         + Occurrences(docs[1].children, id)
         + Occurrences(Tail(docs), id)

\* The names the nodes with this id carry in a forest.
RECURSIVE NamesOf(_, _)
NamesOf(docs, id) ==
    UNION {(IF docs[i]._id = id THEN {docs[i].name} ELSE {})
           \cup NamesOf(docs[i].children, id) : i \in DOMAIN docs}

\* The name of the last valid row with this code.
LastNameOf(rows, code) ==
    rows[CHOOSE i \in DOMAIN rows :
            /\ rows[i].CATEGORY_CODE = code
            /\ \A j \in DOMAIN rows : rows[j].CATEGORY_CODE = code => j <= i].CATEGORY_NAME

\* C17 as stated: for every list of rows with valid codes, repeated codes
\* included, every code occurs at most once in the whole forest, and the node
\* that occurs carries the name of the last row with that code.
C17_NoDuplicatedNode ==
    TreeWritten =>
        \A c \in ValidCodes :
            /\ Occurrences(StoredForest, c) <= 1
            /\ NamesOf(StoredForest, c) \subseteq
                  {LastNameOf(ValidCategories(files.categories), c)}

====
